---- MODULE Spec2Model ----
(***************************************************************************)
(* A model of fred/core.py: the class Fred, its process-wide request       *)
(* counters, the throttle step and the retry loop of Fred.get.             *)
(*                                                                         *)
(* Time is counted in ticks of one third of a second, the coarsest unit in *)
(* which the throttle's target time (REQUEST_COUNT + 1) / (90/60) seconds  *)
(* is a whole number.  Python strings that the code takes apart or builds  *)
(* (resource names, parameter names) are sequences of characters;          *)
(* dictionaries are functions.                                             *)
(***************************************************************************)
EXTENDS Integers, Sequences, FiniteSets, TLC

VARIABLES
    FIRST_REQUEST_TIMESTAMP,  \* Fred.FIRST_REQUEST_TIMESTAMP (class attribute)
    REQUEST_COUNT,            \* Fred.REQUEST_COUNT (class attribute)
    fred,                     \* the client instances: their api_key and xml
    now,                      \* datetime.now(), in ticks
    pc,                       \* where the running call of Fred.get stands
    self,                     \* the instance the running call was made on
    throttle,                 \* its throttle argument
    params,                   \* its outgoing parameters
    url,                      \* its URL, as path segments
    error_flag,
    request_retries,
    content,                  \* request.content of the last attempt
    output,
    error_code,
    result,                   \* what the last finished call returned or raised
    attempts,                 \* history: the HTTP GETs issued so far
    window,                   \* history: the GETs of the current 60 seconds
    ts_writes,                \* history: assignments to the timestamp
    call,                     \* history of the running (or last) call
    threads                   \* the calls running on threads of their own

locals == <<self, throttle, params, url, error_flag, request_retries,
            content, output, error_code>>
globals == <<FIRST_REQUEST_TIMESTAMP, REQUEST_COUNT>>
vars == <<FIRST_REQUEST_TIMESTAMP, REQUEST_COUNT, fred, now, pc, self,
          throttle, params, url, error_flag, request_retries, content,
          output, error_code, result, attempts, window, ts_writes, call,
          threads>>

----------------------------------------------------------------------------
(* Program constants *)

sleep_secs == 300
max_retries == 3
RateLimitRequests == 90
RateLimitSeconds == 60

(* Bounds of the model *)

MaxCalls == 2          \* calls of Fred.get in one behaviour
MaxRateCalls == 92     \* calls in one behaviour of the rate specification
MaxRateTime == 725     \* the latest tick at which it starts a call

(* One second in ticks, and the times tried between two calls *)
Ticks(secs) == 3 * secs
IdleGaps == {0, Ticks(1)}
RateGaps == {0, 1, Ticks(4 * RateLimitSeconds)}

None == [type |-> "NoneType"]
NoTimestamp == -1

----------------------------------------------------------------------------
(* Strings and dictionaries *)

S_xml == <<"x", "m", "l">>
S_id == <<"i", "d">>
S_start == <<"s", "t", "a", "r", "t">>
S_end == <<"e", "n", "d">>
S_sort == <<"s", "o", "r", "t">>
S_api_key == <<"a", "p", "i", "_", "k", "e", "y">>
S_file_type == <<"f", "i", "l", "e", "_", "t", "y", "p", "e">>
S_realtime_start == <<"r", "e", "a", "l", "t", "i", "m", "e", "_">> \o S_start
S_realtime_end == <<"r", "e", "a", "l", "t", "i", "m", "e", "_">> \o S_end
S_sort_order == S_sort \o <<"_", "o", "r", "d", "e", "r">>
S_limit == <<"l", "i", "m", "i", "t">>
S_series == <<"s", "e", "r", "i", "e", "s">>
S_releases == <<"r", "e", "l", "e", "a", "s", "e", "s">>
S_release == <<"r", "e", "l", "e", "a", "s", "e">>
S_category == <<"c", "a", "t", "e", "g", "o", "r", "y">>
S_source == <<"s", "o", "u", "r", "c", "e">>
S_sources == S_source \o <<"s">>
S_tags == <<"t", "a", "g", "s">>
S_search == <<"s", "e", "a", "r", "c", "h">>
S_class == <<"c", "l", "a", "s", "s">>
S_release_id == S_release \o <<"_">> \o S_id
S_endpoint == <<"https://api.stlouisfed.org/fred/">>

EmptyDict == [k \in {} |-> None]
DictPop(d, k) == [x \in (DOMAIN d) \ {k} |-> d[x]]
DictSet(d, k, v) == [x \in (DOMAIN d) \cup {k} |-> IF x = k THEN v ELSE d[x]]

RECURSIVE rstrip(_, _)
rstrip(s, ch) ==
    IF Len(s) > 0 /\ s[Len(s)] = ch
    THEN rstrip(SubSeq(s, 1, Len(s) - 1), ch)
    ELSE s

----------------------------------------------------------------------------
(* Fred.__init__ *)

NewFred(environ, api_key, xml_output) ==
    [api_key |-> IF "FRED_API_KEY" \in DOMAIN environ
                 THEN environ["FRED_API_KEY"]
                 ELSE api_key,
     xml |-> xml_output,
     xml_output |-> xml_output,     \* history: the constructor's arguments
     api_key_arg |-> api_key,
     environ |-> environ]           \* history: os.environ when it was made

(* Fred._create_path: filter(None, args) drops None and '', the rest is
   joined with '/' after the endpoint *)
Str(s) == [type |-> "str", value |-> s]
Truthy(a) == a.type = "str" /\ a.value # <<>>

RECURSIVE Join(_, _)
Join(sep, strs) ==
    IF Len(strs) = 0 THEN <<>>
    ELSE IF Len(strs) = 1 THEN strs[1].value
    ELSE strs[1].value \o sep \o Join(sep, Tail(strs))

create_path(args) == S_endpoint \o Join(<<"/">>, SelectSeq(args, Truthy))

(* Fred._get_keywords: the outgoing parameters, and self.xml afterwards *)

(* The old key left in place beside the new one *)
RenameKey_KeepOld(d, old, new) ==
    IF old \in DOMAIN d THEN DictSet(d, new, d[old]) ELSE d

RenameKey(d, old, new) ==
    IF old \in DOMAIN d THEN DictSet(DictPop(d, old), new, d[old]) ELSE d

IdKey(location) ==
    (IF location # S_series THEN rstrip(location, "s") ELSE location)
        \o <<"_">> \o S_id

XmlAfterKeywords(self_xml, keywords) ==
    IF S_xml \in DOMAIN keywords THEN TRUE ELSE self_xml

(* The credential added only when the caller passed none *)
get_keywords_CallerKeyWins(api_key, location, keywords) ==
    LET k1 == IF S_xml \in DOMAIN keywords
              THEN DictPop(keywords, S_xml)
              ELSE DictSet(keywords, S_file_type, "json")
        k2 == RenameKey(k1, S_id, IdKey(location))
        k3 == RenameKey(k2, S_start, S_realtime_start)
        k4 == RenameKey(k3, S_end, S_realtime_end)
        k5 == RenameKey(k4, S_sort, S_sort_order)
    IN  IF S_api_key \in DOMAIN k5 THEN k5 ELSE DictSet(k5, S_api_key, api_key)

get_keywords(api_key, location, keywords) ==
    LET k1 == IF S_xml \in DOMAIN keywords
              THEN DictPop(keywords, S_xml)
              ELSE DictSet(keywords, S_file_type, "json")
        k2 == RenameKey(k1, S_id, IdKey(location))
        k3 == RenameKey(k2, S_start, S_realtime_start)
        k4 == RenameKey(k3, S_end, S_realtime_end)
        k5 == RenameKey(k4, S_sort, S_sort_order)
    IN  DictSet(k5, S_api_key, api_key)

----------------------------------------------------------------------------
(* The HTTP transport and the decoders *)

Codes == {0, 400, 429, 500}       \* 0: the body is no error envelope
Formats == {"json", "xml"}        \* a body of one is malformed as the other
Bodies == {[fmt |-> f, code |-> c] : f \in Formats, c \in Codes}

ConnectionError == [fmt |-> "none", code |-> 0, raises |-> "ConnectionError"]
Responses == Bodies \cup {ConnectionError}

CodeStr(c) ==
    CASE c = 400 -> "400" [] c = 429 -> "429" [] c = 500 -> "500" [] OTHER -> ""

Raise(exc) == [type |-> "raise", exc |-> exc]
Return(value) == [type |-> "return", value |-> value]
IsRaise(r) == r.type = "raise"

(* json.loads: the mapping a JSON body decodes to *)
json_loads(body) ==
    IF body.fmt # "json" THEN Raise("JSONDecodeError")
    ELSE IF body.code = 0 THEN [type |-> "dict", seriess |-> body.n]
    ELSE [type |-> "dict", error_code |-> body.code, error_message |-> body.n]

(* ET.fromstring: the root element of an XML body *)
ET_fromstring(body) ==
    IF body.fmt # "xml" THEN Raise("ParseError")
    ELSE IF body.code = 0 THEN [type |-> "Element", tag |-> "seriess", attrib |-> [count |-> "1"]]
    ELSE [type |-> "Element", tag |-> "error", attrib |-> [code |-> CodeStr(body.code)]]

(* Fred._output *)
output_of(self_xml, body) == IF self_xml THEN body ELSE json_loads(body)

(* Code 500 forgotten in XML mode *)
XmlRecoverable_Only429(root) ==
    /\ root.tag = "error"
    /\ "code" \in DOMAIN root.attrib
    /\ root.attrib.code = "429"

(* Fred._handle_errors: <<error_flag, error_code>>, or the exception raised *)
XmlRecoverable(root) ==
    /\ root.tag = "error"
    /\ "code" \in DOMAIN root.attrib
    /\ (root.attrib.code = "429" \/ root.attrib.code = "500")

(* Every error envelope taken for a recoverable one *)
JsonRecoverable_AnyCode(out) == "error_code" \in DOMAIN out

JsonRecoverable(out) ==
    /\ "error_code" \in DOMAIN out
    /\ (out.error_code = 429 \/ out.error_code = 500)

handle_errors(self_xml, out) ==
    IF self_xml
    THEN LET root == ET_fromstring(out)
         IN  IF IsRaise(root) THEN root
             ELSE IF XmlRecoverable(root)
                  THEN [type |-> "tuple", error_flag |-> TRUE, error_code |-> root.attrib.code]
                  ELSE [type |-> "tuple", error_flag |-> FALSE, error_code |-> None]
    ELSE IF JsonRecoverable(out)
         THEN [type |-> "tuple", error_flag |-> TRUE, error_code |-> out.error_code]
         ELSE [type |-> "tuple", error_flag |-> FALSE, error_code |-> None]

----------------------------------------------------------------------------
(* Fred.__throttle, with elapsed = datetime.now() - FIRST_REQUEST_TIMESTAMP
   in ticks.  request_pace >= rq_pace_limit, cleared of its divisions:
   count / (elapsed / Ticks(1)) >= 90 / 60 *)
PaceAtLimit(count, elapsed) ==
    count * Ticks(1) * RateLimitSeconds >= RateLimitRequests * elapsed

(* The delay computed for the requests made, not for one more *)
ThrottleDelay_CountOnly(count, elapsed) ==
    IF PaceAtLimit(count, elapsed)
    THEN (count * Ticks(1) * RateLimitSeconds) \div RateLimitRequests - elapsed
    ELSE 0

ThrottleDelay(count, elapsed) ==
    IF PaceAtLimit(count, elapsed)
    THEN ((count + 1) * Ticks(1) * RateLimitSeconds) \div RateLimitRequests - elapsed
    ELSE 0

(* The throttle step run from the second request on *)
ThrottleApplies_FromSecond(count, thr) == count >= 1 /\ thr

(* Fred.get, lines 54-55: whether the throttle step runs *)
ThrottleApplies(count, thr) == count > 1 /\ thr

(* The loop's condition with < for <= *)
LoopCondition_Strict(flag, retries) == flag /\ retries < max_retries

(* Fred.get, line 62: the retry loop's condition *)
LoopCondition(flag, retries) == flag /\ retries <= max_retries

(* The timestamp never stored *)
TimestampAfter_Never(ts, t) == ts

(* The timestamp stored without the test for None *)
TimestampAfter_Always(ts, t) == t

(* Fred.get, lines 51-52 *)
TimestampAfter(ts, t) == IF ts = NoTimestamp THEN t ELSE ts

(* Fred.get, line 66 *)
CountAfter(count) == count + 1

(* Fred.get, line 73 *)
BackoffTicks == Ticks(sleep_secs)

----------------------------------------------------------------------------
(* The clients, and what the callers pass *)

Clients == {"fred1", "fred2"}
Environs == {[HOME |-> "/root"], [HOME |-> "/root", FRED_API_KEY |-> "ENVKEY"]}
Endpoints == {S_category, S_release, S_releases, S_series, S_source,
              S_sources, S_tags}

(* The calls tried: an endpoint method, its path and its keyword arguments *)
CallInputs ==
    {[location |-> S_sources, path |-> None, keywords |-> EmptyDict],
     [location |-> S_series, path |-> Str(S_search),
      keywords |-> (S_xml :> "True")],
     [location |-> S_releases, path |-> None,
      keywords |-> (S_id :> "51") @@ (S_start :> "2001-01-01")
                       @@ (S_end :> "2002-01-01") @@ (S_sort :> "desc")
                       @@ (S_limit :> "10") @@ (S_api_key :> "OTHER")]}

NewCall(n, count, location, keywords, c, thr) ==
    [n |-> n,                     \* the call's number
     location |-> location,       \* the resource name it was given
     keywords |-> keywords,       \* the keyword arguments it was given
     start_count |-> count,       \* REQUEST_COUNT when it started
     client |-> c,                \* the instance it was made on
     throttle |-> thr,            \* its throttle argument
     xml_kw |-> S_xml \in DOMAIN keywords,
     attempts |-> 0,              \* its HTTP GETs
     last_body |-> None,          \* what its last GET came back with
     all_429 |-> TRUE,            \* every body so far is a 429 error envelope
     first_final |-> FALSE,       \* its first body is data or another error
     recoverable |-> 0,           \* its bodies that are 429 or 500 envelopes
     decoded_as |-> "",           \* the format its bodies were decoded in
     sleeps |-> 0,                \* its 300-second sleeps
     throttle_steps |-> 0,        \* its calls of __throttle
     throttle_slept |-> 0,        \* ticks it slept in __throttle
     throttle_elapsed |-> -1,     \* the elapsed ticks __throttle measured
     throttle_at |-> -1,          \* its GETs made when __throttle ran
     first_get |-> -1]            \* the time of its first GET

(* The threads of the concurrent specification, one call of Fred.get each,
   and the frame of a thread that has not called yet or has returned *)
Threads == {"t1", "t2"}

NewThread(at) ==
    [pc |-> at,
     throttle |-> FALSE,
     error_flag |-> FALSE,
     request_retries |-> 0,
     content |-> None,
     loaded |-> -1,       \* the REQUEST_COUNT it read and has not stored back
     wake |-> 0,          \* when its sleep ends
     resume |-> ""]       \* where it goes on after its sleep

InitProcess ==
    /\ threads = [t \in Threads |-> NewThread("idle")]
    /\ FIRST_REQUEST_TIMESTAMP = NoTimestamp
    /\ REQUEST_COUNT = 0
    /\ now = 0
    /\ pc = "idle"
    /\ self = None /\ throttle = None /\ params = None /\ url = None
    /\ error_flag = None /\ request_retries = None /\ content = None
    /\ output = None /\ error_code = None
    /\ result = None
    /\ attempts = 0
    /\ window = [start |-> 0, count |-> 0]
    /\ ts_writes = 0
    /\ call = NewCall(0, 0, <<>>, EmptyDict, "", FALSE)

(* Two clients: Fred(api_key, xml_output) and Fred(api_key) *)
Init ==
    /\ InitProcess
    /\ \E environ \in Environs, xml_output \in BOOLEAN :
         fred = [c \in Clients |->
                    IF c = "fred1" THEN NewFred(environ, "ARGKEY", xml_output)
                    ELSE NewFred(environ, "ARGKEY", FALSE)]

(* The HTTP GETs issued in the 60 seconds that began with the first GET not
   in the 60 seconds before *)
WindowAfter(w, t) ==
    IF w.count > 0 /\ t < w.start + Ticks(RateLimitSeconds)
    THEN [w EXCEPT !.count = @ + 1]
    ELSE [start |-> t, count |-> 1]

(* The format a client in mode self_xml decodes a body in *)
DecodeFormat(self_xml) == IF self_xml THEN "xml" ELSE "json"

(* A body that is the 429 error envelope of the format it is decoded in *)
Is429(self_xml, body) ==
    body.code = 429 /\ body.fmt = DecodeFormat(self_xml)

(* A body, in the format it is decoded in, that is data or an error other
   than 429 and 500 *)
IsFinal(self_xml, body) ==
    body.code \notin {429, 500} /\ body.fmt = DecodeFormat(self_xml)

(* A body that is the 429 or the 500 error envelope of the format it is
   decoded in *)
IsRetried(self_xml, body) ==
    body.code \in {429, 500} /\ body.fmt = DecodeFormat(self_xml)

(* What a finished call leaves of its frame *)
FrameGone ==
    /\ self' = None /\ throttle' = None /\ params' = None /\ url' = None
    /\ error_flag' = None /\ request_retries' = None /\ content' = None
    /\ output' = None /\ error_code' = None

(* Fred.get, lines 46-48, as every endpoint method calls it *)
Get(c, location, path, thr, keywords, gap) ==
    /\ pc = "idle"
    /\ now' = now + gap     \* the time since the last call ended
    /\ self' = c
    /\ throttle' = thr
    /\ params' = get_keywords(fred[c].api_key, location, keywords)
    /\ fred' = [fred EXCEPT ![c].xml = XmlAfterKeywords(@, keywords)]
    /\ url' = create_path(<<Str(location), path>>)
    /\ result' = None
    /\ call' = NewCall(call.n + 1, REQUEST_COUNT, location, keywords, c, thr)
    /\ pc' = "timestamp"
    /\ UNCHANGED <<globals, error_flag, request_retries, content, output,
                   error_code, attempts, window, ts_writes>>
    /\ UNCHANGED threads

(* Fred.get, lines 51-52 *)
StoreTimestamp ==
    /\ pc = "timestamp"
    /\ FIRST_REQUEST_TIMESTAMP' = TimestampAfter(FIRST_REQUEST_TIMESTAMP, now)
    /\ ts_writes' = IF FIRST_REQUEST_TIMESTAMP' # FIRST_REQUEST_TIMESTAMP
                    THEN ts_writes + 1 ELSE ts_writes
    /\ pc' = "throttle"
    /\ UNCHANGED <<REQUEST_COUNT, fred, now, locals, result, attempts, window,
                   call>>
    /\ UNCHANGED threads

(* Fred.get, lines 54-56, and Fred.__throttle.  Equal timestamps raise
   ZeroDivisionError; an elapsed time of less than one tick is otherwise a
   pace above the limit.  sleep raises ValueError on a negative delay. *)
Throttle ==
    /\ pc = "throttle"
    /\ LET elapsed == now - FIRST_REQUEST_TIMESTAMP
           delay == ThrottleDelay(REQUEST_COUNT, elapsed)
       IN  IF ~ThrottleApplies(REQUEST_COUNT, throttle)
           THEN /\ pc' = "init"
                /\ UNCHANGED <<now, result, call, locals>>
           ELSE \/ /\ elapsed = 0 \/ delay < 0
                   /\ pc' = "idle"
                   /\ result' = Raise(IF elapsed = 0 THEN "ZeroDivisionError"
                                      ELSE "ValueError")
                   /\ call' = [call EXCEPT !.throttle_steps = @ + 1,
                                           !.throttle_elapsed = elapsed,
                                           !.throttle_at = call.attempts]
                   /\ FrameGone
                   /\ UNCHANGED now
                \/ /\ delay >= 0
                   /\ pc' = "init"
                   /\ now' = now + delay
                   /\ call' = [call EXCEPT !.throttle_steps = @ + 1,
                                           !.throttle_slept = @ + delay,
                                           !.throttle_elapsed = elapsed,
                                           !.throttle_at = call.attempts]
                   /\ UNCHANGED <<result, locals>>
    /\ UNCHANGED <<globals, fred, attempts, window, ts_writes>>
    /\ UNCHANGED threads

(* Fred.get, lines 58-61 *)
InitLoop ==
    /\ pc = "init"
    /\ error_flag' = TRUE
    /\ request_retries' = 0
    /\ pc' = "loop"
    /\ UNCHANGED <<globals, fred, now, self, throttle, params, url, content,
                   output, error_code, result, attempts, window, ts_writes,
                   call>>
    /\ UNCHANGED threads

(* Fred.get, lines 62 and 75 *)
LoopTest ==
    /\ pc = "loop"
    /\ IF LoopCondition(error_flag, request_retries)
       THEN pc' = "request" /\ UNCHANGED <<result, locals>>
       ELSE pc' = "idle" /\ result' = Return(output) /\ FrameGone
    /\ UNCHANGED <<globals, fred, now, attempts, window, ts_writes, call>>
    /\ UNCHANGED threads

(* Lines 63-65 with the transport's exception caught and the attempt
   retried after the 300-second sleep *)
Request_Retrying(response) ==
    /\ pc = "request"
    /\ attempts' = attempts + 1
    /\ window' = WindowAfter(window, now)
    /\ IF response = ConnectionError
       THEN /\ pc' = "sleep"
            /\ request_retries' = request_retries + 1
            /\ call' = [call EXCEPT !.attempts = @ + 1,
                                    !.first_get = IF call.attempts = 0
                                                      THEN now ELSE @,
                                    !.last_body = Raise("ConnectionError"),
                                    !.all_429 = FALSE]
            /\ UNCHANGED <<result, self, throttle, params, url, error_flag,
                           content, output, error_code>>
       ELSE LET body == [type |-> "bytes", fmt |-> response.fmt,
                         code |-> response.code, n |-> attempts + 1]
            IN  /\ pc' = "decode"
                /\ content' = body
                /\ call' = [call EXCEPT !.attempts = @ + 1,
                                        !.first_get = IF call.attempts = 0
                                                          THEN now ELSE @,
                                        !.last_body = body,
                                        !.all_429 = @ /\ Is429(fred[self].xml, body),
                                        !.recoverable =
                                            IF IsRetried(fred[self].xml, body)
                                            THEN @ + 1 ELSE @,
                                        !.first_final =
                                            IF call.attempts = 0
                                            THEN IsFinal(fred[self].xml, body)
                                            ELSE @]
                /\ UNCHANGED <<result, self, throttle, params, url, error_flag,
                               request_retries, output, error_code>>
    /\ UNCHANGED <<globals, fred, now, ts_writes>>
    /\ UNCHANGED threads

(* Fred.get, lines 63-65: requests.get raises or returns.  self._request,
   which nothing reads, is left out; the time a GET takes is part of the
   time to the next call. *)
Request(response) ==
    /\ pc = "request"
    /\ attempts' = attempts + 1
    /\ window' = WindowAfter(window, now)
    /\ IF response = ConnectionError
       THEN /\ pc' = "idle"
            /\ result' = Raise("ConnectionError")
            /\ call' = [call EXCEPT !.attempts = @ + 1,
                                    !.first_get = IF call.attempts = 0
                                                      THEN now ELSE @,
                                    !.last_body = Raise("ConnectionError"),
                                    !.all_429 = FALSE]
            /\ FrameGone
       ELSE LET body == [type |-> "bytes", fmt |-> response.fmt,
                         code |-> response.code, n |-> attempts + 1]
            IN  /\ pc' = "decode"
                /\ content' = body
                /\ call' = [call EXCEPT !.attempts = @ + 1,
                                        !.first_get = IF call.attempts = 0
                                                          THEN now ELSE @,
                                        !.last_body = body,
                                        !.all_429 = @ /\ Is429(fred[self].xml, body),
                                        !.recoverable =
                                            IF IsRetried(fred[self].xml, body)
                                            THEN @ + 1 ELSE @,
                                        !.first_final =
                                            IF call.attempts = 0
                                            THEN IsFinal(fred[self].xml, body)
                                            ELSE @]
                /\ UNCHANGED <<result, self, throttle, params, url, error_flag,
                               request_retries, output, error_code>>
    /\ UNCHANGED <<globals, fred, now, ts_writes>>
    /\ UNCHANGED threads

(* Fred.get, lines 66-72 *)
Decode ==
    /\ pc = "decode"
    /\ REQUEST_COUNT' = CountAfter(REQUEST_COUNT)
    /\ LET out == output_of(fred[self].xml, content)
           err == IF IsRaise(out) THEN out ELSE handle_errors(fred[self].xml, out)
       IN  /\ call' = [call EXCEPT !.decoded_as = DecodeFormat(fred[self].xml)]
           /\ IF IsRaise(err)
              THEN /\ pc' = "idle"
                   /\ result' = err
                   /\ FrameGone
              ELSE /\ output' = out
                   /\ error_flag' = err.error_flag
                   /\ error_code' = err.error_code
                   /\ request_retries' = IF err.error_flag
                                         THEN request_retries + 1
                                         ELSE request_retries
                   /\ pc' = IF err.error_flag THEN "sleep" ELSE "loop"
                   /\ UNCHANGED <<result, self, throttle, params, url, content>>
    /\ UNCHANGED <<FIRST_REQUEST_TIMESTAMP, fred, now, attempts, window,
                   ts_writes>>
    /\ UNCHANGED threads

(* The throttle test run again after the back-off sleep *)
Backoff_Rethrottled ==
    /\ pc = "sleep"
    /\ now' = now + BackoffTicks
    /\ call' = [call EXCEPT !.sleeps = @ + 1]
    /\ pc' = "throttle"
    /\ UNCHANGED <<globals, fred, locals, result, attempts, window, ts_writes>>
    /\ UNCHANGED threads

(* Fred.get, line 73 *)
Backoff ==
    /\ pc = "sleep"
    /\ now' = now + BackoffTicks
    /\ call' = [call EXCEPT !.sleeps = @ + 1]
    /\ pc' = "loop"
    /\ UNCHANGED <<globals, fred, locals, result, attempts, window, ts_writes>>
    /\ UNCHANGED threads

Next ==
    \/ /\ call.n < MaxCalls
       /\ \E c \in Clients, in \in CallInputs, thr \in BOOLEAN,
             gap \in IdleGaps :
             Get(c, in.location, in.path, thr, in.keywords, gap)
    \/ StoreTimestamp
    \/ Throttle
    \/ InitLoop
    \/ LoopTest
    \/ \E response \in Responses : Request(response)
    \/ Decode
    \/ Backoff

Spec == Init /\ [][Next]_vars

(* The parameter specification: one call of Fred.get on a resource name,
   an endpoint's or another, with any set of the keyword arguments that
   _get_keywords treats or that its results collide with *)
Locations == Endpoints \cup {S_class}

ArgNames == {S_xml, S_id, S_start, S_end, S_sort, S_api_key, S_limit,
             S_file_type, S_realtime_start, S_release_id}

ArgValue(k) ==
    CASE k = S_xml -> "True"
      [] k = S_id -> "51"
      [] k = S_start -> "2001-01-01"
      [] k = S_end -> "2002-01-01"
      [] k = S_sort -> "desc"
      [] k = S_api_key -> "OTHER"
      [] k = S_limit -> "10"
      [] k = S_file_type -> "xml"
      [] k = S_realtime_start -> "1999-09-09"
      [] k = S_release_id -> "77"

KeywordArgs == {[k \in names |-> ArgValue(k)] : names \in SUBSET ArgNames}

NextParams ==
    /\ call.n = 0
    /\ \E c \in Clients, location \in Locations, keywords \in KeywordArgs :
          Get(c, location, None, FALSE, keywords, 0)

SpecParams == Init /\ [][NextParams]_vars

(* The rate specification: clients made by Fred(), every call throttled, a
   server that answers every GET with data, and calls in quick succession or
   after a long pause *)
InitRate ==
    /\ InitProcess
    /\ fred = [c \in Clients |-> NewFred([HOME |-> "/root"], "", FALSE)]

NextRate ==
    \/ /\ call.n < MaxRateCalls
       /\ \E gap \in RateGaps :
             /\ now + gap <= MaxRateTime
             /\ Get("fred1", S_series, None, TRUE, EmptyDict, gap)
    \/ StoreTimestamp
    \/ Throttle
    \/ InitLoop
    \/ LoopTest
    \/ Request([fmt |-> "json", code |-> 0])
    \/ Decode

SpecRate == InitRate /\ [][NextRate]_vars

----------------------------------------------------------------------------
(* The concurrent specification: two threads that call Fred.get once each
   on a client made by Fred().  A step is one access to the class
   attributes: the test of line 51 and the store of line 52 are two steps,
   and so are the read and the write of REQUEST_COUNT += 1 in line 66.
   What a thread does to its own frame goes with the access before it.  A
   sleeping thread goes on when the clock has reached the end of its
   sleep. *)
sequential == <<fred, pc, self, throttle, params, url, error_flag,
                request_retries, content, output, error_code, result,
                window, call>>

At(t, at) == threads[t].pc = at

(* Fred.get, lines 46-48 *)
T_Get(t, thr) ==
    /\ At(t, "idle")
    /\ threads' = [threads EXCEPT ![t].pc = "timestamp", ![t].throttle = thr]
    /\ UNCHANGED <<globals, now, attempts, ts_writes, sequential>>

(* Fred.get, line 51 *)
T_TestTimestamp(t) ==
    /\ At(t, "timestamp")
    /\ threads' = [threads EXCEPT ![t].pc =
                      IF FIRST_REQUEST_TIMESTAMP = NoTimestamp
                      THEN "store_timestamp" ELSE "throttle"]
    /\ UNCHANGED <<globals, now, attempts, ts_writes, sequential>>

(* Fred.get, line 52 *)
T_StoreTimestamp(t) ==
    /\ At(t, "store_timestamp")
    /\ FIRST_REQUEST_TIMESTAMP' = now
    /\ ts_writes' = ts_writes + 1
    /\ threads' = [threads EXCEPT ![t].pc = "throttle"]
    /\ UNCHANGED <<REQUEST_COUNT, now, attempts, sequential>>

(* Fred.get, lines 54-61 *)
T_Throttle(t) ==
    /\ At(t, "throttle")
    /\ LET elapsed == now - FIRST_REQUEST_TIMESTAMP
           delay == ThrottleDelay(REQUEST_COUNT, elapsed)
           ready == [threads[t] EXCEPT !.error_flag = TRUE,
                                       !.request_retries = 0]
       IN  IF ~ThrottleApplies(REQUEST_COUNT, threads[t].throttle)
           THEN threads' = [threads EXCEPT ![t] = [ready EXCEPT !.pc = "loop"]]
           ELSE \/ /\ elapsed = 0 \/ delay < 0
                   /\ threads' = [threads EXCEPT ![t] = NewThread("raised")]
                \/ /\ delay >= 0
                   /\ threads' = [threads EXCEPT ![t] =
                                     [ready EXCEPT !.pc = "sleeping",
                                                   !.wake = now + delay,
                                                   !.resume = "loop"]]
    /\ UNCHANGED <<globals, now, attempts, ts_writes, sequential>>

(* Fred.get, lines 62 and 75 *)
T_LoopTest(t) ==
    /\ At(t, "loop")
    /\ threads' = [threads EXCEPT ![t] =
                      IF LoopCondition(@.error_flag, @.request_retries)
                      THEN [@ EXCEPT !.pc = "request"]
                      ELSE NewThread("returned")]
    /\ UNCHANGED <<globals, now, attempts, ts_writes, sequential>>

(* Fred.get, lines 63-65 *)
T_Request(t, response) ==
    /\ At(t, "request")
    /\ attempts' = attempts + 1
    /\ threads' = [threads EXCEPT ![t] =
                      IF response = ConnectionError
                      THEN NewThread("raised")
                      ELSE [@ EXCEPT !.pc = "load_count",
                                     !.content =
                                         [type |-> "bytes",
                                          fmt |-> response.fmt,
                                          code |-> response.code, n |-> 0]]]
    /\ UNCHANGED <<globals, now, ts_writes, sequential>>

(* Fred.get, line 66: the read of Fred.REQUEST_COUNT *)
T_LoadCount(t) ==
    /\ At(t, "load_count")
    /\ threads' = [threads EXCEPT ![t].pc = "store_count",
                                  ![t].loaded = REQUEST_COUNT]
    /\ UNCHANGED <<globals, now, attempts, ts_writes, sequential>>

(* Fred.get, line 66: the write, and lines 67-72 *)
T_StoreCount(t) ==
    /\ At(t, "store_count")
    /\ REQUEST_COUNT' = CountAfter(threads[t].loaded)
    /\ LET err == handle_errors(FALSE, output_of(FALSE, threads[t].content))
       IN  threads' = [threads EXCEPT ![t] =
                          [@ EXCEPT !.loaded = -1,
                                    !.content = None,
                                    !.error_flag = err.error_flag,
                                    !.request_retries =
                                        IF err.error_flag THEN @ + 1 ELSE @,
                                    !.pc = IF err.error_flag
                                           THEN "sleep" ELSE "loop"]]
    /\ UNCHANGED <<FIRST_REQUEST_TIMESTAMP, now, attempts, ts_writes,
                   sequential>>

(* Fred.get, line 73: the sleep begins *)
T_Backoff(t) ==
    /\ At(t, "sleep")
    /\ threads' = [threads EXCEPT ![t].pc = "sleeping",
                                  ![t].wake = now + BackoffTicks,
                                  ![t].resume = "loop"]
    /\ UNCHANGED <<globals, now, attempts, ts_writes, sequential>>

(* time.sleep returns *)
T_Wake(t) ==
    /\ At(t, "sleeping")
    /\ now >= threads[t].wake
    /\ threads' = [threads EXCEPT ![t].pc = threads[t].resume,
                                  ![t].wake = 0, ![t].resume = ""]
    /\ UNCHANGED <<globals, now, attempts, ts_writes, sequential>>

(* The clock reaches the end of a thread's sleep *)
ClockTick ==
    /\ \E t \in Threads :
          /\ At(t, "sleeping")
          /\ threads[t].wake > now
          /\ now' = threads[t].wake
    /\ UNCHANGED <<globals, threads, attempts, ts_writes, sequential>>

(* What a thread's GET comes back with: data or the 429 envelope in JSON,
   or no answer *)
ThreadResponses == {[fmt |-> "json", code |-> 0],
                    [fmt |-> "json", code |-> 429], ConnectionError}

InitThreads ==
    /\ InitProcess
    /\ fred = [c \in Clients |-> NewFred([HOME |-> "/root"], "", FALSE)]

NextThreads ==
    \/ \E t \in Threads, thr \in BOOLEAN : T_Get(t, thr)
    \/ \E t \in Threads : T_TestTimestamp(t)
    \/ \E t \in Threads : T_StoreTimestamp(t)
    \/ \E t \in Threads : T_Throttle(t)
    \/ \E t \in Threads : T_LoopTest(t)
    \/ \E t \in Threads, response \in ThreadResponses : T_Request(t, response)
    \/ \E t \in Threads : T_LoadCount(t)
    \/ \E t \in Threads : T_StoreCount(t)
    \/ \E t \in Threads : T_Backoff(t)
    \/ \E t \in Threads : T_Wake(t)
    \/ ClockTick

SpecThreads == InitThreads /\ [][NextThreads]_vars

----------------------------------------------------------------------------
(* The claims *)

(* The call has ended: it returned or raised *)
Finished == pc = "idle" /\ call.n > 0

(* C1: a call all of whose HTTP attempts came back with the 429 error
   envelope makes exactly 4 attempts (max_retries + 1) and then returns,
   without raising, what the last of them decoded to. *)
C1_ExhaustedRetriesReturnLast ==
    /\ (call.all_429 /\ call.attempts > 0) => call.attempts <= max_retries + 1
    /\ (Finished /\ call.all_429 /\ call.attempts > 0) =>
          /\ call.attempts = max_retries + 1
          /\ call.last_body.n = attempts
          /\ result = Return(output_of(call.decoded_as = "xml", call.last_body))

C1_Witness ==
    /\ Finished /\ call.all_429 /\ call.attempts = 4
    /\ result.type = "return"
    /\ call.decoded_as = "json"
    /\ result.value.error_code = 429

(* C2: every 300-second sleep of a call is followed by another HTTP attempt
   of that call, so an ended call has slept at most max_retries times and
   fewer times than it made attempts. *)
C2_SleepsOnlyBetweenAttempts ==
    Finished =>
        /\ call.sleeps <= max_retries
        /\ call.sleeps > 0 => call.sleeps < call.attempts

(* C3: a call whose first HTTP attempt came back with data or with an error
   other than 429 and 500 makes that one attempt, never sleeps 300 seconds,
   and returns what the body decoded to. *)
C3_FinalFirstAttemptReturns ==
    call.first_final =>
        /\ call.attempts = 1
        /\ call.sleeps = 0
        /\ pc \in {"decode", "loop", "idle"}
        /\ Finished => result = Return(output_of(call.decoded_as = "xml",
                                                 call.last_body))

C3_Witness ==
    /\ Finished /\ call.first_final
    /\ call.last_body.code = 400
    /\ result.type = "return"
    /\ call.decoded_as = "json"
    /\ result.value.error_code = 400

(* C4: REQUEST_COUNT is the number of HTTP GETs issued so far, whatever
   became of them (between a GET's return and line 66 it is one behind). *)
C4_CountIsAttempts ==
    IF pc = "decode" THEN REQUEST_COUNT + 1 = attempts
    ELSE REQUEST_COUNT = attempts

(* C5: FIRST_REQUEST_TIMESTAMP is assigned once, by the first call of
   Fred.get on any instance and before the first HTTP GET; no later step
   assigns it again. *)
C5_TimestampWrittenOnce ==
    LET first_call_before_write == call.n = 0 \/ (call.n = 1 /\ pc = "timestamp")
    IN  /\ ts_writes <= 1
        /\ (ts_writes = 0) = (FIRST_REQUEST_TIMESTAMP = NoTimestamp)
        /\ (ts_writes = 0) = first_call_before_write
        /\ attempts > 0 => ts_writes = 1
        /\ FIRST_REQUEST_TIMESTAMP # NoTimestamp => FIRST_REQUEST_TIMESTAMP <= now

C5_Witness ==
    /\ Finished /\ call.n = 2 /\ call.client = "fred2"
    /\ call.attempts > 1
    /\ ts_writes = 1
    /\ FIRST_REQUEST_TIMESTAMP < now

(* C6: when a throttled call that started with REQUEST_COUNT > 1 issues its
   first HTTP GET, the requests so far and this one fit the budget:
   (REQUEST_COUNT + 1) / elapsed <= 90 / 60 requests a second. *)
C6_NextRequestWithinBudget ==
    (pc = "decode" /\ call.attempts = 1 /\ call.throttle /\ call.start_count > 1) =>
        (REQUEST_COUNT + 1) * Ticks(1) * RateLimitSeconds
            <= RateLimitRequests * (now - FIRST_REQUEST_TIMESTAMP)

(* C7: with every call throttled, no 60 seconds see more than 90 HTTP GETs. *)
C7_RateLimitEnforced == window.count <= RateLimitRequests

(* C8: a call that starts with REQUEST_COUNT <= 1, or with throttle false,
   never enters __throttle: no delay is computed, no throttle sleep made. *)
C8_NoThrottleEarlyOrDisabled ==
    (call.n > 0 /\ (call.start_count <= 1 \/ ~call.throttle)) =>
        (call.throttle_steps = 0 /\ call.throttle_slept = 0)

C8_Witness ==
    /\ Finished /\ call.throttle /\ call.start_count = 1
    /\ call.attempts > 0
    /\ now = FIRST_REQUEST_TIMESTAMP     \* a pace over the limit

C8_WitnessDisabled ==
    /\ Finished /\ ~call.throttle /\ call.start_count > 1
    /\ call.attempts > 0

(* C9: the xml keyword acts on its own call only: a call made without it,
   also after a call with it on the same client, decodes its bodies in the
   output mode the client was constructed with. *)
C9_XmlKeywordIsPerCall ==
    (call.decoded_as # "" /\ ~call.xml_kw) =>
        call.decoded_as = DecodeFormat(fred[call.client].xml_output)

(* C10: a transport error or a decode failure ends the call at once with
   that exception: no HTTP attempt and no 300-second sleep follows it (every
   sleep of the call lies between two of its attempts). *)
C10_FailuresPropagate ==
    LET transport == call.last_body = Raise("ConnectionError")
        undecodable == /\ call.attempts > 0 /\ ~transport /\ pc # "decode"
                       /\ call.last_body.fmt # call.decoded_as
    IN  /\ transport => /\ Finished
                        /\ result = Raise("ConnectionError")
                        /\ call.sleeps = call.attempts - 1
        /\ undecodable => /\ Finished
                          /\ result \in {Raise("JSONDecodeError"), Raise("ParseError")}
                          /\ call.sleeps = call.attempts - 1

C10_Witness ==
    /\ Finished /\ call.attempts = 2 /\ call.sleeps = 1
    /\ call.last_body = Raise("ConnectionError")
    /\ result = Raise("ConnectionError")

C10_WitnessDecode ==
    /\ Finished /\ call.attempts = 2 /\ call.sleeps = 1
    /\ call.last_body # Raise("ConnectionError")
    /\ call.last_body.fmt = "xml" /\ call.decoded_as = "json"
    /\ result = Raise("JSONDecodeError")

(* C11: whatever the bodies, a call stops at the first one that is not a 429
   or 500 error envelope, or at the 4th, and returns what that last body
   decoded to; 429 and 500, and no other code, are retried, as error_code in
   JSON mode and as the code attribute of an error root in XML mode. *)
C11_StopsAtFirstFinalOrFourth ==
    /\ call.attempts <= max_retries + 1
    /\ call.recoverable >= call.attempts - 1
    /\ (Finished /\ result.type = "return") =>
          /\ call.attempts >= 1
          /\ result.value = output_of(call.decoded_as = "xml", call.last_body)
          /\ call.last_body.n = attempts
          /\ IF call.last_body.code \in {429, 500}
             THEN call.recoverable = max_retries + 1
             ELSE call.recoverable = call.attempts - 1

C11_Witness ==
    /\ Finished /\ result.type = "return"
    /\ call.decoded_as = "xml"
    /\ call.attempts = 3 /\ call.recoverable = 2
    /\ call.last_body.code = 400

C11_WitnessFourth ==
    /\ Finished /\ result.type = "return"
    /\ call.decoded_as = "xml"
    /\ call.attempts = 4
    /\ call.last_body.code = 500

(* C12: the outgoing parameters carry the client's credential as api_key,
   whatever api_key the caller passed; the credential is the environment's
   FRED_API_KEY when that is set and the constructor's argument otherwise. *)
C12_CredentialIsTheClients ==
    /\ \A c \in Clients :
          fred[c].api_key = IF "FRED_API_KEY" \in DOMAIN fred[c].environ
                            THEN fred[c].environ["FRED_API_KEY"]
                            ELSE fred[c].api_key_arg
    /\ pc # "idle" =>
          /\ S_api_key \in DOMAIN params
          /\ params[S_api_key] = fred[self].api_key

C12_Witness ==
    /\ pc # "idle"
    /\ S_api_key \in DOMAIN call.keywords
    /\ "FRED_API_KEY" \in DOMAIN fred[self].environ
    /\ params[S_api_key] = "ENVKEY"
    /\ call.keywords[S_api_key] = "OTHER"
    /\ fred[self].api_key_arg = "ARGKEY"

C12_WitnessArgument ==
    /\ pc # "idle"
    /\ S_api_key \in DOMAIN call.keywords
    /\ "FRED_API_KEY" \notin DOMAIN fred[self].environ
    /\ params[S_api_key] = "ARGKEY"

(* The resource name with one trailing 's' taken off, 'series' kept whole *)
C13_Singular(location) ==
    IF location # S_series /\ Len(location) > 0
            /\ location[Len(location)] = "s"
    THEN SubSeq(location, 1, Len(location) - 1)
    ELSE location

(* C13: for every resource name, when the caller passes id the outgoing
   parameters have no id and have <resource>_id with the caller's value,
   <resource> being the name with one trailing 's' stripped, and 'series'
   unstripped. *)
C13_IdRenamedToSingular ==
    (pc # "idle" /\ S_id \in DOMAIN call.keywords) =>
        /\ S_id \notin DOMAIN params
        /\ (C13_Singular(call.location) \o <<"_">> \o S_id) \in DOMAIN params
        /\ params[C13_Singular(call.location) \o <<"_">> \o S_id]
               = call.keywords[S_id]

(* The renames of lines 123-131, as <<caller's name, outgoing name>> *)
C14_Renames == {<<S_start, S_realtime_start>>, <<S_end, S_realtime_end>>,
                <<S_sort, S_sort_order>>}

C14_Renamed ==
    \A r \in C14_Renames :
        /\ r[1] \notin DOMAIN params
        /\ r[1] \in DOMAIN call.keywords =>
              /\ r[2] \in DOMAIN params
              /\ params[r[2]] = call.keywords[r[1]]

C14_Others == DOMAIN call.keywords
                  \ {S_start, S_end, S_sort, S_id, S_xml, S_api_key}

(* The names the call writes itself: file_type when xml is not passed, and
   the outgoing name of each rename that takes place *)
C14_Written ==
    (IF S_xml \in DOMAIN call.keywords THEN {} ELSE {S_file_type})
        \cup {r[2] : r \in {q \in C14_Renames : q[1] \in DOMAIN call.keywords}}
        \cup (IF S_id \in DOMAIN call.keywords
              THEN {IdKey(call.location)} ELSE {})

(* C14: for every subset of start, end, sort that the caller passes, the
   outgoing parameters have realtime_start, realtime_end, sort_order with
   the caller's values and none of start, end, sort, and every other
   parameter of the caller, id, xml and api_key apart, goes out with its
   name and value unchanged. *)
C14_RenamesAndPassThrough ==
    pc # "idle" =>
        /\ C14_Renamed
        /\ \A k \in C14_Others :
              k \in DOMAIN params /\ params[k] = call.keywords[k]

(* C14, amended: the same, for every other parameter whose name the call
   does not write itself (file_type on a call without xml, the outgoing
   name of a rename that takes place); a parameter of such a name goes out
   with the value the call writes. *)
C14_PassThroughUnlessWritten ==
    pc # "idle" =>
        /\ C14_Renamed
        /\ \A k \in C14_Others \ C14_Written :
              k \in DOMAIN params /\ params[k] = call.keywords[k]
        /\ \A k \in C14_Others \cap C14_Written : k \in DOMAIN params
        /\ (S_file_type \in C14_Others \cap C14_Written) =>
               params[S_file_type] = "json"

C14_Witness ==
    /\ pc # "idle"
    /\ {S_start, S_end, S_sort, S_limit, S_file_type, S_xml}
           \subseteq DOMAIN call.keywords
    /\ S_realtime_start \notin DOMAIN call.keywords
    /\ params[S_limit] = "10"
    /\ params[S_file_type] = "xml"
    /\ params[S_realtime_start] = "2001-01-01"
    /\ params[S_sort_order] = "desc"

C14_WitnessWritten ==
    /\ pc # "idle"
    /\ {S_start, S_realtime_start, S_file_type} \subseteq DOMAIN call.keywords
    /\ S_xml \notin DOMAIN call.keywords
    /\ params[S_file_type] = "json"
    /\ params[S_realtime_start] = "2001-01-01"

(* C15: file_type = 'json' is among the outgoing parameters of a call
   exactly when the bodies of that call are decoded as JSON, also on a
   client made with xml_output = True and on calls after an xml call. *)
C15_FileTypeIffJsonDecoding ==
    pc # "idle" =>
        ((S_file_type \in DOMAIN params /\ params[S_file_type] = "json")
            <=> DecodeFormat(fred[self].xml) = "json")

(* The ticks one request takes at 90 requests in 60 seconds *)
C16_TicksPerRequest == Ticks(RateLimitSeconds) \div RateLimitRequests

(* C16: the delay __throttle sleeps is never negative: when the measured
   pace REQUEST_COUNT / elapsed is 1.5 a second or more, it is
   (REQUEST_COUNT + 1) / 1.5 - elapsed and at least the time of one
   request, 1 / 1.5 s; otherwise it is 0. *)
C16_DelayNeverNegative ==
    /\ call.throttle_slept >= 0
    /\ result # Raise("ValueError")
    /\ (call.throttle_steps > 0 /\ result # Raise("ZeroDivisionError")) =>
          IF call.start_count * C16_TicksPerRequest >= call.throttle_elapsed
          THEN /\ call.throttle_slept =
                      (call.start_count + 1) * C16_TicksPerRequest
                          - call.throttle_elapsed
               /\ call.throttle_slept >= C16_TicksPerRequest
          ELSE call.throttle_slept = 0

C16_Witness ==
    /\ call.throttle_steps = 1
    /\ call.throttle_elapsed > 0
    /\ call.start_count * C16_TicksPerRequest >= call.throttle_elapsed
    /\ call.throttle_slept > 0

C16_WitnessNoDelay ==
    /\ call.throttle_steps = 1
    /\ call.throttle_elapsed > call.start_count * C16_TicksPerRequest
    /\ call.throttle_slept = 0
    /\ pc = "request"

(* C17: in sequential use REQUEST_COUNT > 0 implies that
   FIRST_REQUEST_TIMESTAMP is set, and the throttle step never reads an
   unset timestamp: it runs after lines 51-52 and measures a time from a
   timestamp that is set. *)
C17_CountedImpliesTimestamp ==
    /\ REQUEST_COUNT > 0 => FIRST_REQUEST_TIMESTAMP # NoTimestamp
    /\ pc \notin {"idle", "timestamp"} => FIRST_REQUEST_TIMESTAMP # NoTimestamp
    /\ call.throttle_steps > 0 =>
          /\ FIRST_REQUEST_TIMESTAMP # NoTimestamp
          /\ call.throttle_elapsed >= 0
          /\ call.throttle_elapsed <= now - FIRST_REQUEST_TIMESTAMP

C17_Witness ==
    /\ call.throttle_steps = 1
    /\ call.n = 2
    /\ REQUEST_COUNT > 1
    /\ FIRST_REQUEST_TIMESTAMP # NoTimestamp
    /\ call.throttle_elapsed = Ticks(sleep_secs) + Ticks(1)

(* C18: within one call the throttle step runs at most once, and only
   before the first GET; every retry comes after a 300-second back-off
   sleep and nothing else. *)
C18_ThrottleOnceBeforeFirstAttempt ==
    /\ call.throttle_steps <= 1
    /\ call.throttle_steps = 1 => call.throttle_at = 0
    /\ call.sleeps >= call.attempts - 1
    /\ pc \in {"request", "decode"} =>
          /\ call.sleeps = request_retries
          /\ call.attempts \in {request_retries, request_retries + 1}
    /\ (call.attempts >= 1 /\ pc # "idle") =>
          now = call.first_get + call.sleeps * Ticks(sleep_secs)

C18_Witness ==
    /\ Finished /\ result.type = "return"
    /\ call.throttle_steps = 1 /\ call.throttle_at = 0
    /\ call.attempts = max_retries + 1
    /\ call.sleeps >= max_retries

(* C19: with two calls of Fred.get on threads of their own, however their
   steps interleave, REQUEST_COUNT ends equal to the number of GETs made
   and FIRST_REQUEST_TIMESTAMP has been written exactly once. *)
C19_ThreadsCountAndInitializeOnce ==
    (\A t \in Threads : At(t, "returned")) =>
        /\ REQUEST_COUNT = attempts
        /\ ts_writes = 1

====
